---- MODULE Spec2Model ----
(***************************************************************************)
(* Model of code.py, the CircuitPython program of the Pico measurement     *)
(* station: one wake cycle of __main__ (load batch and counter, measure,   *)
(* append, deliver on threshold with retries, persist, deep sleep) and the *)
(* TFTP write client send_log_file.                                        *)
(*                                                                         *)
(* Persistent state (survives deep sleep and power loss): nvm, file.       *)
(* Everything else is volatile: the program restarts from its first line   *)
(* on every wake.                                                          *)
(***************************************************************************)
EXTENDS Integers, Sequences, FiniteSets, TLC

\* ---------------------------------------------------------------- bounds
MaxWakes == 12      \* wake-ups (program starts) explored
MaxFaults == 2      \* crashes and power losses explored
MaxLen == 1030      \* longest payload explored by the send-only specification
RecLenMin == 76     \* length of the shortest formatted record explored
MaxCnt == 4         \* most valid distance samples explored by the median specification

\* ------------------------------------------------------ program constants
num_of_cycles == 10
num_of_send_retries == 3
BLOCK == 512

Min(a, b) == IF a < b THEN a ELSE b

\* -------------------------------------------------------------- wire format
\* int.to_bytes(2, 'big')
ToBytes2(n) == << n \div 256, n % 256 >>

\* bytes.startswith(prefix)
StartsWith(s, p) == Len(s) >= Len(p) /\ SubSeq(s, 1, Len(p)) = p

\* b'\x00\x04\x00\x00', the acknowledgment of the write request
WrqAckPrefix == << 0, 4, 0, 0 >>

\* b'\x00\x04' + block_number.to_bytes(2, 'big')
DataAckPrefix(block_number) == << 0, 4 >> \o ToBytes2(block_number)

\* mutant: the block number of the reply is not compared
WrqAckedAnyBlock(response) == StartsWith(response, << 0, 4 >>)

\* the check of the reply to the write request (line 155)
WrqAcked(response) == StartsWith(response, WrqAckPrefix)

\* mutant: the block number of the reply is not compared
DataAckedAnyBlock(response, block_number) == StartsWith(response, << 0, 4 >>)

\* mutant: the reply to a data block is not checked
DataAckedUnchecked(response, block_number) == TRUE

\* the check of the reply to a data block (line 180)
DataAcked(response, block_number) == StartsWith(response, DataAckPrefix(block_number))

\* data[offset:offset+512], as the half-open range of payload positions it holds
Slice(len, offset) == [lo |-> Min(offset, len), hi |-> Min(offset + BLOCK, len)]

SliceLen(b) == b.hi - b.lo

\* mutant: a full block ends the transfer too
IsFinalBlockIncl(block) == SliceLen(block) <= BLOCK

\* mutant: no block ends the transfer
IsFinalBlockNever(block) == SliceLen(block) < 0

\* the end-of-file test on the block just acknowledged (line 185)
IsFinalBlock(block) == SliceLen(block) < BLOCK

\* Replies a server (or anyone else on the network) can give to a datagram.
\* "timeout" stands for recvfrom_into raising after the 5 s socket timeout.
Replies ==
    { << 0, 4, 0, 0 >>, << 0, 4, 0, 1 >>, << 0, 4, 0, 2 >>, << 0, 4, 0, 3 >>,
      << 0, 4, 0, 1, 7 >>, << 0, 5, 0, 1 >>, << 0, 4 >>, << >> }

Timeout == << 255 >>

Addrs == { "tid", "other" }

\* what recvfrom_into can return: a reply and the address it came from, or
\* the timeout, which has no address
Received ==
    { << response, from >> : response \in Replies, from \in Addrs }
        \cup { << Timeout, "none" >> }

\* ------------------------------------------------------------------ batch
RECURSIVE SumW(_)
SumW(s) == IF s = << >> THEN 0 ELSE Head(s).w + SumW(Tail(s))

\* len(f"{measurements}"): "{'data': [" + records joined by ", " + "]}"
SerLen(batch) ==
    IF batch = << >> THEN 12 ELSE 12 + SumW(batch) + 2 * (Len(batch) - 1)

Ids(batch) == { batch[k].id : k \in 1..Len(batch) }

\* lengths of one formatted record
RecWidths == { RecLenMin }

\* the byte found in microcontroller.nvm[0] before this program ever wrote it
FirstRunBytes == { 0, 1, 255 }

VARIABLES
    nvm,            \* microcontroller.nvm[0]
    file,           \* data.json: [ok |-> it exists and is readable, data |-> its text]
    everSaved,      \* history: the program has written nvm[0] at least once
    persisted,      \* history: [ok |-> the last write of data.json ran to its end, data |-> the batch it was given]
    wakes,          \* number of program starts so far
    pc,             \* position of the program
    measurements,   \* measurements["data"]
    cycle,          \* cycle
    loaded,         \* history: the value of cycle read from nvm in this run
    pool,           \* pool: "None" or "pool"
    connected,      \* wifi.radio.connected
    send_result,    \* send_result
    i,              \* loop variable of the retry loop
    data_len,       \* len(data) inside send_log_file
    block_number,   \* block_number
    offset,         \* offset
    sock,           \* "none", "open", "closed"
    server_address, \* address taken from the reply to the write request
    sent,           \* history: datagrams sent by the current send call
    acks,           \* history: replies received by the current send call
    srcs,           \* history: the addresses those replies came from
    send_error,     \* history: the current send call raised before a datagram went out
    results,        \* history: results of the send calls of this cycle
    pending,        \* history: batch awaiting delivery when the threshold branch is entered
    cleared,        \* history: measurements["data"].clear() ran in this cycle
    stores,         \* history: the writes to storage of this run, in order
    delivered,      \* history: id -> number of successful send calls whose payload held it
    faults,         \* history: number of crashes and power losses so far
    completed,      \* history: number of cycles that saved the counter
    readings,       \* measure_dist: the valid distance samples of this cycle
    final_dist      \* measure_dist: the result of get_median, [num, den] for num / den

pers == << nvm, file, everSaved, persisted, faults, completed >>
mainv == << wakes, pc, measurements, cycle, loaded, pool, connected, send_result, i,
            results, pending, cleared, stores, delivered >>
sendv == << data_len, block_number, offset, sock, server_address, sent, acks,
            srcs, send_error >>
medv == << readings, final_dist >>
vars == << pers, mainv, sendv, medv >>

\* ------------------------------------------------------------------ state
\* The text of data.json, as the three parts json.dump writes in order: the
\* opening '{"data": [', the records, the closing ']}'.
NoText == [open |-> FALSE, recs |-> << >>, close |-> FALSE]

\* mutant: the records are written newest first
JsonDumpNewestFirst(batch) ==
    [open |-> TRUE,
     recs |-> [k \in 1..Len(batch) |-> batch[Len(batch) + 1 - k]],
     close |-> TRUE]

\* json.dump(measurements, store_file) (line 480)
JsonDump(batch) == [open |-> TRUE, recs |-> batch, close |-> TRUE]

\* json.load(store_file) (line 389): the batch, or ok = FALSE when it raises
\* because the text is not a complete JSON document
JsonLoad(text) ==
    IF text.open /\ text.close
    THEN [ok |-> TRUE, data |-> text.recs]
    ELSE [ok |-> FALSE, data |-> << >>]

\* what a write of the batch leaves in the file when it is cut short: the
\* file truncated by open(..., "w"), or the text without its closing
TornTexts(batch) ==
    { NoText, [open |-> TRUE, recs |-> batch, close |-> FALSE] }

\* data.json: ok = the file exists and can be opened for reading
NoFile == [ok |-> FALSE, data |-> NoText]

\* the volatile state of a program that is not running
VolatileOff ==
    /\ measurements = << >> /\ cycle = 0 /\ loaded = 0 /\ pool = "None"
    /\ connected = FALSE /\ send_result = FALSE /\ i = 0
    /\ results = << >> /\ pending = << >> /\ cleared = FALSE /\ stores = << >>
    /\ data_len = 0 /\ block_number = 0 /\ offset = 0 /\ sock = "none"
    /\ server_address = "none" /\ sent = << >> /\ acks = << >>
    /\ srcs = << >> /\ send_error = FALSE

\* First power-up: no data.json yet, nvm[0] holds whatever it held before.
\* get_median is not under way
NoMedian == readings = << >> /\ final_dist = [num |-> 0, den |-> 1]

Init ==
    /\ nvm \in FirstRunBytes
    /\ file = NoFile
    /\ everSaved = FALSE
    /\ persisted = [ok |-> FALSE, data |-> << >>]
    /\ faults = 0
    /\ completed = 0
    /\ wakes = 0
    /\ pc = "boot"
    /\ delivered = [n \in 1..MaxWakes |-> 0]
    /\ VolatileOff
    /\ NoMedian

\* ------------------------------------------------------------ main program
\* json.load of data.json, or the empty batch on any exception (lines 387-395)
LoadBatch(f) == IF f.ok /\ JsonLoad(f.data).ok THEN JsonLoad(f.data).data ELSE << >>

\* int(microcontroller.nvm[0]) (line 402)
LoadCycle(byte) == byte

\* lines 382-402: program start up to the read of the cycle counter
Boot ==
    /\ pc = "boot"
    /\ wakes < MaxWakes
    /\ wakes' = wakes + 1
    /\ measurements' = LoadBatch(file)
    /\ pool' = "None"
    /\ send_result' = FALSE
    /\ cycle' = LoadCycle(nvm)
    /\ loaded' = LoadCycle(nvm)
    /\ connected' \in BOOLEAN
    /\ pc' = "rtc"
    /\ UNCHANGED << pers, i, results, pending, stores, cleared, delivered, sendv >>
    /\ UNCHANGED medv

\* connect_wifi (lines 101-116): the pool on success, None on any exception
ConnectWifi(ok) == IF ok THEN "pool" ELSE "None"

\* lines 412-421: set the RTC over NTP when it is not set
RtcSync ==
    /\ pc = "rtc"
    /\ \E rtcSet \in BOOLEAN, ok \in BOOLEAN :
          IF ~rtcSet /\ ~connected
          THEN connected' = ok /\ pool' = ConnectWifi(ok)
          ELSE UNCHANGED << connected, pool >>
    /\ pc' = "measure"
    /\ UNCHANGED << pers, wakes, measurements, cycle, loaded, send_result, i,
                    results, pending, stores, cleared, delivered, sendv >>
    /\ UNCHANGED medv

\* lines 424-430: measure and append the record; measure_dist raises when no
\* distance sample was valid (get_median of an empty list), which ends the program
Measure ==
    /\ pc = "measure"
    /\ \E w \in RecWidths, valid \in BOOLEAN :
          IF valid
          THEN /\ measurements' = Append(measurements, [id |-> wakes, w |-> w])
               /\ pc' = "threshold"
               /\ UNCHANGED faults
          ELSE /\ faults < MaxFaults
               /\ faults' = faults + 1
               /\ pc' = "crashed"
               /\ UNCHANGED measurements
    /\ UNCHANGED << nvm, file, everSaved, persisted, completed, wakes, cycle, loaded, pool, connected, send_result, i,
                    results, pending, stores, cleared, delivered, sendv >>
    /\ UNCHANGED medv

\* mutant: strict comparison
ThresholdReachedLate(c) == c > num_of_cycles

\* line 439
ThresholdReached(c) == c >= num_of_cycles

\* lines 439-446 and 463-464
Threshold ==
    /\ pc = "threshold"
    /\ IF ThresholdReached(cycle)
       THEN /\ \E ok \in BOOLEAN :
                 IF ~connected
                 THEN connected' = ok /\ pool' = ConnectWifi(ok)
                 ELSE UNCHANGED << connected, pool >>
            /\ pending' = measurements
            /\ i' = 0
            /\ pc' = "retry"
            /\ UNCHANGED cycle
       ELSE /\ cycle' = cycle + 1
            /\ pc' = "nvm_write"
            /\ UNCHANGED << connected, pool, pending, i >>
    /\ UNCHANGED << pers, wakes, measurements, loaded, send_result,
                    results, cleared, stores, delivered, sendv >>
    /\ UNCHANGED medv

\* mutants: one pass too many, one pass too few
MoreRetriesLong(k) == k <= num_of_send_retries
MoreRetriesShort(k) == k < num_of_send_retries - 1

\* line 447: for i in range(retries)
MoreRetries(k) == k < num_of_send_retries

\* lines 447-448: the loop head; calls send_log_file with f"{measurements}"
Retry ==
    /\ pc = "retry"
    /\ IF MoreRetries(i)
       THEN /\ data_len' = SerLen(measurements)
            /\ block_number' = 0 /\ offset' = 0 /\ sock' = "none"
            /\ server_address' = "none" /\ sent' = << >> /\ acks' = << >>
            /\ srcs' = << >> /\ send_error' = FALSE
            /\ pc' = "wrq"
       ELSE /\ pc' = "after_loop"
            /\ UNCHANGED sendv
    /\ UNCHANGED << pers, wakes, measurements, cycle, loaded, pool, connected,
                    send_result, i, results, pending, stores, cleared, delivered >>
    /\ UNCHANGED medv

\* ------------------------------------------------------------ send_log_file
\* b'\x00\x02' + filename + b'\x00' + b'octet' + b'\x00', sent to (server_ip, TFTP_PORT)
WrqPacket == [op |-> 2, blk |-> << >>, lo |-> 0, hi |-> 0, dst |-> "request_port"]

\* b'\x00\x03' + block_number.to_bytes(2, 'big') + block, sent to server_address
DataPacket(n, block, dst) ==
    [op |-> 3, blk |-> ToBytes2(n), lo |-> block.lo, hi |-> block.hi, dst |-> dst]

\* the call returns v to line 448; a payload that was sent with success has
\* been delivered once more
Return(v) ==
    /\ send_result' = v
    /\ results' = Append(results, v)
    /\ delivered' = [n \in DOMAIN delivered |->
                        IF v /\ n \in Ids(measurements)
                        THEN Min(delivered[n] + 1, 2) ELSE delivered[n]]
    /\ pc' = "send_ret"

\* lines 121-162: open the socket, send the write request, wait for its reply
SendWrq ==
    /\ pc = "wrq"
    /\ \/ \* pool is None and pool.socket raises, or sendto raises: the except
          \* clause returns False
          /\ sock' = IF pool = "None" THEN "none" ELSE "open"
          /\ send_error' = TRUE
          /\ Return(FALSE)
          /\ UNCHANGED << data_len, block_number, offset, server_address, sent, acks,
                          srcs >>
       \/ /\ pool # "None"
          /\ sent' = Append(sent, WrqPacket)
          /\ \E rcv \in Received :
             LET response == rcv[1]
                 from == rcv[2] IN
                /\ acks' = Append(acks, response)
                /\ srcs' = Append(srcs, from)
                /\ IF response = Timeout
                   THEN \* recvfrom_into raises; the except clause returns False
                        /\ sock' = "open"
                        /\ Return(FALSE)
                        /\ UNCHANGED << block_number, offset, server_address >>
                   ELSE IF ~WrqAcked(response)
                   THEN /\ sock' = "closed"
                        /\ Return(FALSE)
                        /\ UNCHANGED << block_number, offset, server_address >>
                   ELSE /\ sock' = "open"
                        /\ server_address' = from
                        /\ block_number' = 1
                        /\ offset' = 0
                        /\ pc' = "data"
                        /\ UNCHANGED << send_result, results, delivered >>
          /\ UNCHANGED << data_len, send_error >>
    /\ UNCHANGED << pers, wakes, measurements, cycle, loaded, pool, connected, i,
                    pending, stores, cleared >>
    /\ UNCHANGED medv

\* lines 167-204: one pass of the data loop, and the return when the loop ends
SendData ==
    /\ pc = "data"
    /\ LET block == Slice(data_len, offset) IN
       \/ \* sendto raises, or to_bytes raises OverflowError because the number
          \* needs more than 2 bytes: the except clause returns False
          /\ send_error' = TRUE
          /\ Return(FALSE)
          /\ UNCHANGED << data_len, block_number, offset, sock, server_address,
                          sent, acks, srcs >>
       \/ /\ block_number <= 65535
          /\ sent' = Append(sent, DataPacket(block_number, block, server_address))
          /\ \E rcv \in Received :
             LET response == rcv[1]
                 from == rcv[2] IN
                /\ acks' = Append(acks, response)
                /\ srcs' = Append(srcs, from)
                /\ IF response = Timeout
                   THEN /\ Return(FALSE)
                        /\ UNCHANGED << block_number, offset, sock >>
                   ELSE IF ~DataAcked(response, block_number)
                   THEN /\ sock' = "closed"
                        /\ Return(FALSE)
                        /\ UNCHANGED << block_number, offset >>
                   ELSE IF IsFinalBlock(block)
                   THEN /\ sock' = "closed"
                        /\ Return(TRUE)
                        /\ UNCHANGED << block_number, offset >>
                   ELSE /\ offset' = offset + BLOCK
                        /\ block_number' = block_number + 1
                        /\ UNCHANGED << sock, pc, send_result, results, delivered >>
          /\ UNCHANGED << data_len, server_address, send_error >>
    /\ UNCHANGED << pers, wakes, measurements, cycle, loaded, pool, connected, i,
                    pending, stores, cleared >>
    /\ UNCHANGED medv

\* ------------------------------------------------------- after a send call
\* the locals of send_log_file are gone once the call has returned
CallOver ==
    /\ data_len' = 0 /\ block_number' = 0 /\ offset' = 0 /\ sock' = "none"
    /\ server_address' = "none" /\ sent' = << >> /\ acks' = << >>
    /\ srcs' = << >> /\ send_error' = FALSE

\* lines 450-456: clear and stop on success, go round the loop otherwise
SendRet ==
    /\ pc = "send_ret"
    /\ CallOver
    /\ IF send_result
       THEN /\ measurements' = << >>
            /\ cleared' = TRUE
            /\ cycle' = 1
            /\ pc' = "after_loop"
            /\ UNCHANGED i
       ELSE /\ i' = i + 1
            /\ pc' = "retry"
            /\ UNCHANGED << measurements, cleared, cycle >>
    /\ UNCHANGED << pers, wakes, loaded, pool, connected, send_result,
                    results, pending, stores, delivered >>
    /\ UNCHANGED medv

\* mutant: the batch is kept when every attempt failed
AfterExhaustionKeep(batch) == batch

\* line 459: what is left of the batch when every attempt has failed
AfterExhaustion(batch) == << >>

\* lines 458-462
AfterLoop ==
    /\ pc = "after_loop"
    /\ IF ~send_result
       THEN /\ measurements' = AfterExhaustion(measurements)
            /\ cleared' = (AfterExhaustion(measurements) = << >>)
            /\ cycle' = 1
       ELSE UNCHANGED << measurements, cleared, cycle >>
    /\ pc' = "nvm_write"
    /\ UNCHANGED << pers, wakes, loaded, pool, connected, send_result, i,
                    results, pending, stores, delivered, sendv >>
    /\ UNCHANGED medv

\* mutant: the counter is not written before the batch file
NvmWriteSkipped ==
    /\ pc = "nvm_write"
    /\ pc' = "file_write"
    /\ UNCHANGED << pers, wakes, measurements, cycle, loaded, pool, connected,
                    send_result, i, results, pending, stores, cleared, delivered, sendv >>
    /\ UNCHANGED medv

\* line 477: microcontroller.nvm[0] = cycle
NvmWrite ==
    /\ pc = "nvm_write"
    /\ nvm' = cycle
    /\ everSaved' = TRUE
    /\ completed' = completed + 1
    /\ stores' = Append(stores, "nvm")
    /\ pc' = "file_write"
    /\ UNCHANGED << file, persisted, faults, wakes, measurements, cycle, loaded, pool, connected,
                    send_result, i, results, pending, cleared, delivered, sendv >>
    /\ UNCHANGED medv

\* lines 479-480: open data.json for writing and dump the batch; open raises
\* when the filesystem is not writable, which ends the program
FileWrite ==
    /\ pc = "file_write"
    /\ \E writable \in BOOLEAN :
          IF writable
          THEN /\ file' = [ok |-> TRUE, data |-> JsonDump(measurements)]
               /\ persisted' = [ok |-> TRUE, data |-> measurements]
               /\ stores' = Append(stores, "file")
               /\ pc' = "sleep"
               /\ UNCHANGED faults
          ELSE /\ faults < MaxFaults
               /\ faults' = faults + 1
               /\ pc' = "crashed"
               /\ UNCHANGED << file, persisted, stores >>
    /\ UNCHANGED << nvm, everSaved, completed, wakes, measurements, cycle, loaded, pool, connected,
                    send_result, i, results, pending, cleared, delivered, sendv >>
    /\ UNCHANGED medv

\* the program stops running: nothing volatile is kept
Off ==
    /\ measurements' = << >> /\ cycle' = 0 /\ loaded' = 0 /\ pool' = "None"
    /\ connected' = FALSE /\ send_result' = FALSE /\ i' = 0
    /\ results' = << >> /\ pending' = << >> /\ cleared' = FALSE /\ stores' = << >>
    /\ data_len' = 0 /\ block_number' = 0 /\ offset' = 0 /\ sock' = "none"
    /\ server_address' = "none" /\ sent' = << >> /\ acks' = << >>
    /\ srcs' = << >> /\ send_error' = FALSE
    /\ pc' = "boot"

\* lines 482-485: deep sleep until the alarm; the program starts again on wake
DeepSleep ==
    /\ pc = "sleep"
    /\ Off
    /\ UNCHANGED << pers, wakes, delivered >>
    /\ UNCHANGED medv

\* Power is lost (or the board is reset) while the program runs or after it
\* ended with an exception; a write of data.json under way is left torn.
PowerLoss ==
    /\ pc \notin {"boot", "sleep"}
    /\ IF pc = "crashed"
       THEN UNCHANGED faults
       ELSE faults < MaxFaults /\ faults' = faults + 1
    /\ Off
    /\ \/ UNCHANGED << file, persisted >>
       \/ /\ pc = "file_write"
          /\ \E text \in TornTexts(measurements) : file' = [ok |-> TRUE, data |-> text]
          /\ persisted' = [ok |-> FALSE, data |-> << >>]
    /\ UNCHANGED << nvm, everSaved, completed, wakes, delivered >>
    /\ UNCHANGED medv

Next ==
    \/ Boot \/ RtcSync \/ Measure \/ Threshold \/ Retry
    \/ SendWrq \/ SendData \/ SendRet \/ AfterLoop
    \/ NvmWrite \/ FileWrite \/ DeepSleep \/ PowerLoss

Spec == Init /\ [][Next]_vars

\* --------------------------------------------- send_log_file on its own
\* One call of send_log_file with a payload of any length up to MaxLen, with
\* or without a socket pool.
InitSend ==
    /\ nvm = 1 /\ file = NoFile /\ everSaved = FALSE /\ faults = 0 /\ completed = 0 /\ wakes = 0
    /\ persisted = [ok |-> FALSE, data |-> << >>]
    /\ delivered = [n \in 1..MaxWakes |-> 0]
    /\ measurements = << >> /\ cycle = 0 /\ loaded = 0
    /\ connected = FALSE /\ send_result = FALSE /\ i = 0
    /\ results = << >> /\ pending = << >> /\ cleared = FALSE /\ stores = << >>
    /\ block_number = 0 /\ offset = 0 /\ sock = "none"
    /\ server_address = "none" /\ sent = << >> /\ acks = << >>
    /\ srcs = << >> /\ send_error = FALSE
    /\ pool \in {"None", "pool"}
    /\ data_len \in 0..MaxLen
    /\ pc = "wrq"
    /\ NoMedian

NextSend == SendWrq \/ SendData

SpecSend == InitSend /\ [][NextSend]_vars

\* ------------------------------------------------ get_median on its own
\* sorted(values) (line 219), by insertion
RECURSIVE Insert(_, _)
Insert(v, s) ==
    IF s = << >> THEN << v >>
    ELSE IF v <= Head(s) THEN << v >> \o s
    ELSE << Head(s) >> \o Insert(v, Tail(s))

RECURSIVE sorted(_)
sorted(values) ==
    IF values = << >> THEN << >> ELSE Insert(Head(values), sorted(Tail(values)))

\* mutant: the upper middle value for an even count
get_median_upper(values) ==
    LET sorted_values == sorted(values)
        mid == Len(sorted_values) \div 2
    IN  [num |-> sorted_values[mid + 1], den |-> 1]

\* get_median (lines 218-223); sorted_values[k] of the code is
\* sorted_values[k + 1] here, and x / 2 is kept as [num |-> x, den |-> 2]
get_median(values) ==
    LET sorted_values == sorted(values)
        mid == Len(sorted_values) \div 2
    IN  IF Len(sorted_values) % 2 = 1
        THEN [num |-> sorted_values[mid + 1], den |-> 1]
        ELSE [num |-> sorted_values[mid] + sorted_values[mid + 1], den |-> 2]

\* the distances the sonar reports
Distances == {1, 2, 4, 5, 9}

\* the valid samples of measure_dist (lines 279-290): at most MaxCnt of them
InitMedian ==
    /\ nvm = 1 /\ file = NoFile /\ everSaved = FALSE /\ faults = 0 /\ completed = 0 /\ wakes = 0
    /\ persisted = [ok |-> FALSE, data |-> << >>]
    /\ delivered = [n \in 1..MaxWakes |-> 0]
    /\ VolatileOff
    /\ \E n \in 0..MaxCnt : readings \in [1..n -> Distances]
    /\ final_dist = [num |-> 0, den |-> 1]
    /\ pc = "median"

\* line 292: final_dist = get_median(measurements); with no valid sample
\* sorted_values[mid - 1] raises IndexError
GetMedian ==
    /\ pc = "median"
    /\ IF readings = << >>
       THEN pc' = "crashed" /\ UNCHANGED final_dist
       ELSE pc' = "median_done" /\ final_dist' = get_median(readings)
    /\ UNCHANGED << pers, wakes, measurements, cycle, loaded, pool, connected,
                    send_result, i, results, pending, cleared, stores, delivered,
                    sendv, readings >>

NextMedian == GetMedian

SpecMedian == InitMedian /\ [][NextMedian]_vars

\* ------------------------------------- the program with the counter at 1
\* The first power-up of a device whose nvm[0] was set to 1 beforehand.
InitFrom1 == Init /\ nvm = 1

SpecFrom1 == InitFrom1 /\ [][Next]_vars

\* ================================================================= claims
Last(s) == s[Len(s)]

\* a reply that is an acknowledgment (opcode 4) of block n, read byte by byte
IsAck(r, n) == Len(r) >= 4 /\ r[1] = 0 /\ r[2] = 4 /\ r[3] * 256 + r[4] = n

\* the block number a data datagram carries
BlkOf(d) == d.blk[1] * 256 + d.blk[2]

\* positions of the main program after the threshold branch
EndPcs == {"nvm_write", "file_write", "sleep"}

\* send calls started so far in this cycle
Attempts == Len(results) + (IF pc \in {"wrq", "data"} THEN 1 ELSE 0)

AllFailed == Len(results) = num_of_send_retries /\ \A k \in 1..Len(results) : ~results[k]

\* C1: send_log_file returns success only if the write request was
\* acknowledged with opcode 4 / block 0 and every data block of the payload,
\* the final block shorter than 512 bytes included, was sent and acknowledged
\* with opcode 4 and its own block number.
C1_SuccessOnlyIfAllAcked ==
    (pc = "send_ret" /\ send_result) =>
        /\ Len(sent) >= 2
        /\ Len(acks) = Len(sent)
        /\ sent[1].op = 2
        /\ IsAck(acks[1], 0)
        /\ \A k \in 2..Len(sent) : sent[k].op = 3 /\ IsAck(acks[k], BlkOf(sent[k]))
        /\ sent[2].lo = 0
        /\ \A k \in 2..(Len(sent) - 1) :
              sent[k].hi - sent[k].lo = 512 /\ sent[k + 1].lo = sent[k].hi
        /\ Last(sent).hi = data_len
        /\ Last(sent).hi - Last(sent).lo < 512

C1_Witness ==
    /\ pc = "send_ret" /\ send_result
    /\ data_len = 600 /\ Len(sent) = 3
    /\ acks = << << 0, 4, 0, 0 >>, << 0, 4, 0, 1, 7 >>, << 0, 4, 0, 2 >> >>

\* C2: in a delivery cycle in which all 3 send attempts fail, the counter is
\* reset to 1 and the batch persisted at the end of the cycle is non-empty
\* and contains every record that was awaiting delivery.
C2_BatchRetainedOnExhaustion ==
    (pc = "sleep" /\ AllFailed) =>
        /\ nvm = 1
        /\ file.ok
        /\ LoadBatch(file) # << >>
        /\ Ids(pending) \subseteq Ids(LoadBatch(file))

\* C3: in a delivery cycle send is invoked at most 3 times and never again
\* after a success; when attempt k is the first success exactly k attempts
\* are made, the batch is cleared and the counter set to 1; a failed attempt
\* is followed by another one until the budget is used up.
C3_RetryUntilFirstSuccess ==
    /\ Attempts <= num_of_send_retries
    /\ \A k \in 1..Len(results) : results[k] => (k = Len(results) /\ Attempts = k)
    /\ (pc \in EndPcs /\ results # << >>) =>
          IF Last(results)
          THEN measurements = << >> /\ cycle = 1
          ELSE Len(results) = num_of_send_retries

C3_Witness ==
    /\ pc = "sleep"
    /\ results = << FALSE, FALSE, TRUE >>
    /\ file = [ok |-> TRUE, data |-> JsonDump(<< >>)]
    /\ nvm = 1

\* C4: over any sequence of wake cycles, power losses included, each record
\* is in the payload of at most one send call that returned success.
C4_AtMostOnceDelivery == \A n \in DOMAIN delivered : delivered[n] <= 1

\* C5: the batch is cleared in a cycle if and only if in that cycle a send
\* returned success or all 3 attempts failed; a cycle that makes no delivery
\* attempt keeps every loaded record and the new one.
C5_ClearedIffDeliveredOrExhausted ==
    /\ cleared => (measurements = << >> /\ results # << >>
                   /\ (Last(results) \/ Len(results) = num_of_send_retries))
    /\ pc \in EndPcs =>
          (cleared <=> (results # << >>
                        /\ (Last(results) \/ Len(results) = num_of_send_retries)))
    /\ (pc \in {"nvm_write", "file_write"} /\ results = << >>) =>
          /\ Len(measurements) = Len(LoadBatch(file)) + 1
          /\ SubSeq(measurements, 1, Len(measurements) - 1) = LoadBatch(file)
          /\ Last(measurements).id = wakes

C5_Witness ==
    /\ pc = "sleep" /\ cleared /\ AllFailed
    /\ pending # << >> /\ file = [ok |-> TRUE, data |-> JsonDump(<< >>)]

\* C6: starting from counter 1, a cycle that loads a counter below 10 makes
\* no send and saves counter + 1, the cycle that loads 10 makes a delivery
\* attempt and saves 1 whatever the outcome; the saved counter is therefore
\* 1 + (number of saving cycles mod 10) and a delivery attempt is made in
\* every 10th saving cycle and in no other.
C6_DeliveryEveryTthCycle ==
    /\ nvm = (completed % num_of_cycles) + 1
    /\ (pc \in EndPcs /\ loaded < num_of_cycles) =>
          (results = << >> /\ cycle = loaded + 1)
    /\ (pc \in EndPcs /\ loaded >= num_of_cycles) =>
          (results # << >> /\ cycle = 1)
    /\ pc \in {"file_write", "sleep"} =>
          /\ nvm = cycle
          /\ (results # << >>) <=> (completed % num_of_cycles = 0)
    /\ (pc \in {"retry", "wrq", "data", "send_ret", "after_loop", "nvm_write"}
        /\ Attempts > 0) => (completed + 1) % num_of_cycles = 0

C6_Witness ==
    /\ pc = "sleep" /\ completed = num_of_cycles /\ nvm = 1
    /\ loaded = num_of_cycles /\ results # << >> /\ faults = 0

\* C7: the counter saved at the end of every cycle is in [1, 10]; it is 1
\* exactly in the cycles where a delivery attempt concluded and the loaded
\* value plus 1 in every other cycle.
C7_SavedCounterInRange ==
    pc \in {"file_write", "sleep"} =>
        /\ nvm \in 1..num_of_cycles
        /\ (nvm = 1) <=> (results # << >>)
        /\ (results = << >>) => nvm = loaded + 1

\* C8: on the first run, when the program never saved a counter, loading the
\* counter yields 1 whatever byte nvm[0] holds; on later runs it yields the
\* value last saved.
C8_LoadDefaultsToOne ==
    pc = "rtc" => (IF everSaved THEN loaded = nvm ELSE loaded = 1)

\* every datagram of the call was answered by the acknowledgment of that
\* datagram: block 0 for the write request, its own number for a data block
ServerAcksAll ==
    /\ acks # << >>
    /\ Len(acks) = Len(sent)
    /\ IsAck(acks[1], 0)
    /\ \A k \in 2..Len(acks) : IsAck(acks[k], BlkOf(sent[k]))

\* C9: against a server that acknowledges every datagram correctly a payload
\* of L bytes is sent as exactly L div 512 + 1 data datagrams numbered
\* 1, 2, ..., each carrying the next 512 payload bytes in order, except the
\* last, which carries L mod 512 bytes.
C9_BlockFraming ==
    (pc = "send_ret" /\ ~send_error /\ ServerAcksAll) =>
        LET n == Len(sent) - 1 IN
        /\ n = (data_len \div 512) + 1
        /\ \A k \in 1..n :
              /\ sent[k + 1].op = 3
              /\ BlkOf(sent[k + 1]) = k
              /\ sent[k + 1].lo = 512 * (k - 1)
              /\ sent[k + 1].hi = IF k < n THEN 512 * k ELSE data_len
        /\ Last(sent).hi - Last(sent).lo = data_len % 512

C9_Witness ==
    /\ pc = "send_ret" /\ send_result /\ ServerAcksAll
    /\ data_len = 512 /\ Len(sent) = 3
    /\ Last(sent).lo = 512 /\ Last(sent).hi = 512

\* the reply to the k-th datagram of the call is missing or is not the
\* acknowledgment of that datagram
BadReply(k) ==
    IF k = 1 THEN ~IsAck(acks[1], 0) ELSE ~IsAck(acks[k], BlkOf(sent[k]))

\* C10: within one send call a wrong or missing reply to the write request
\* or to a data block is terminal: the datagram it answers is the last one
\* sent, no block is sent twice, and the call returns failure.
C10_BadReplyIsTerminal ==
    /\ \A k \in 1..Len(acks) :
          BadReply(k) => (k = Len(sent) /\ pc = "send_ret" /\ ~send_result)
    /\ \A j, k \in 2..Len(sent) :
          j # k => (BlkOf(sent[j]) # BlkOf(sent[k]) /\ sent[j].lo # sent[k].lo)

C10_Witness ==
    /\ pc = "send_ret" /\ ~send_result
    /\ data_len = 1000 /\ Len(sent) = 2 /\ acks[2] = Timeout
\* ---------------------------- send_log_file on its own, running to its end
\* The program is sequential and every wait in send_log_file is bounded (the
\* socket timeout of 5 s, time.sleep(1) between blocks, the blinks of
\* indicate_error), so a step that can be taken is taken.
SpecSendLive == InitSend /\ [][NextSend]_vars /\ WF_vars(NextSend)

\* C11: every send call eventually returns, after at most L div 512 + 2
\* datagrams for a payload of L bytes; when the write request gets no reply
\* the call returns failure with no further datagram.
C11_SendReturns ==
    /\ <>(pc = "send_ret")
    /\ [](Len(sent) <= (data_len \div 512) + 2)
    /\ []((acks # << >> /\ acks[1] = Timeout) =>
            (pc = "send_ret" /\ ~send_result /\ Len(sent) = 1))

C11_Witness ==
    /\ pc = "send_ret" /\ ~send_result
    /\ sent = << WrqPacket >> /\ acks = << Timeout >> /\ data_len = 1030
\* C12: the socket opened by a send call is closed before the call returns,
\* on every exit path.
C12_SocketClosedOnReturn == pc = "send_ret" => sock # "open"
\* C13: a data block counts as acknowledged only when its acknowledgment
\* came from the transfer port, the address the reply to the write request
\* came from: every reply after which the call went on, or returned success,
\* came from that address.
C13_AcksFromTransferPort ==
    \A k \in 2..Len(acks) :
        (k < Len(sent) \/ (pc = "send_ret" /\ send_result)) =>
            srcs[k] = server_address
\* C14: in every cycle, with or without a delivery attempt, the counter is
\* written to non-volatile memory first, the batch file is written after it
\* as the last write to storage, and the device suspends only after both.
C14_CounterThenBatchThenSuspend ==
    /\ stores \in { << >>, << "nvm" >>, << "nvm", "file" >> }
    /\ pc = "file_write" => (stores = << "nvm" >> /\ nvm = cycle)
    /\ pc = "sleep" =>
          /\ stores = << "nvm", "file" >>
          /\ nvm = cycle
          /\ file = [ok |-> TRUE, data |-> JsonDump(measurements)]
    /\ (pc = "boot" /\ wakes > 0 /\ faults = 0) => file.ok

C14_Witness ==
    /\ pc = "sleep" /\ stores = << "nvm", "file" >>
    /\ results = << >> /\ nvm = loaded + 1 /\ Len(measurements) = 2

\* C16: loading the batch at the start of a cycle returns exactly the batch
\* given to the last write of data.json that ran to its end, same records in
\* the same order (the empty batch after a clear); when the file is missing
\* or its text is not a complete document it returns the empty batch and the
\* program goes on.
C16_LoadReturnsPersisted ==
    pc = "rtc" =>
        measurements = (IF persisted.ok THEN persisted.data ELSE << >>)

C16_Witness ==
    /\ pc = "rtc" /\ persisted.ok
    /\ Len(measurements) = 3 /\ measurements = persisted.data
    /\ measurements[1].id < measurements[3].id
\* C15: every wake cycle reaches the suspend step under any combination of
\* faults (no valid distance sample, connectivity or time-sync failure, every
\* transfer attempt failing, an unreadable batch file, a failing batch-file
\* write): the program never ends a cycle anywhere but in the suspend step.
C15_EveryCycleReachesSuspend == pc # "crashed"
\* the k-th smallest of the values, by counting
OrderStat(values, k) ==
    CHOOSE v \in { values[j] : j \in 1..Len(values) } :
        /\ Cardinality({ j \in 1..Len(values) : values[j] < v }) < k
        /\ k <= Cardinality({ j \in 1..Len(values) : values[j] <= v })

\* twice the standard median of a non-empty sequence
Median2(values) ==
    LET n == Len(values)
    IN  IF n % 2 = 1
        THEN 2 * OrderStat(values, (n + 1) \div 2)
        ELSE OrderStat(values, n \div 2) + OrderStat(values, n \div 2 + 1)

\* C17: for every non-empty sequence of readings get_median returns the
\* standard median, the middle order statistic for an odd count and the mean
\* of the two middle ones for an even count, whatever the order of the
\* input; [2,4] gives 3 and [1,5,9] gives 5.
C17_MedianIsStandard ==
    pc = "median_done" =>
        /\ readings # << >>
        /\ 2 * final_dist.num = final_dist.den * Median2(readings)
        /\ readings \in { << 2, 4 >>, << 4, 2 >> } => final_dist.num = 3 * final_dist.den
        /\ readings \in { << 1, 5, 9 >>, << 9, 1, 5 >>, << 5, 9, 1 >> } =>
              final_dist.num = 5 * final_dist.den

C17_Witness ==
    /\ pc = "median_done"
    /\ readings = << 9, 2, 5, 4 >>
    /\ final_dist = [num |-> 9, den |-> 2]
\* C18: sends are gated by acknowledgments: no data datagram is sent before
\* a reply starting with 00 04 00 00 was received for the write request,
\* data block n+1 is sent only after an acknowledgment with opcode 4 and
\* block number n was received, and every send call, each retry included,
\* starts again with a write request, block number 1 and payload offset 0.
C18_AckGatedSends ==
    /\ pc = "wrq" => (sent = << >> /\ acks = << >>)
    /\ sent # << >> => sent[1] = WrqPacket
    /\ Len(sent) >= 2 =>
          /\ StartsWith(acks[1], << 0, 4, 0, 0 >>)
          /\ sent[2].op = 3 /\ BlkOf(sent[2]) = 1 /\ sent[2].lo = 0
    /\ \A k \in 3..Len(sent) :
          /\ sent[k].op = 3
          /\ BlkOf(sent[k]) = BlkOf(sent[k - 1]) + 1
          /\ IsAck(acks[k - 1], BlkOf(sent[k - 1]))

C18_Witness ==
    /\ pc = "send_ret" /\ send_result /\ i = 2
    /\ results = << FALSE, FALSE, TRUE >>
    /\ Len(sent) = 3 /\ BlkOf(sent[3]) = 2
\* C19: starting from counter 1 and an empty batch, while power is never
\* lost inside a cycle and the batch file is always readable and writable,
\* the batch loaded at the start of every wake cycle holds the loaded
\* counter minus 1 records, so every delivery attempt sends a batch of
\* exactly num_of_cycles records.
C19_BatchTracksCounter ==
    faults = 0 =>
        /\ pc = "rtc" => Len(measurements) = loaded - 1
        /\ pc \in {"wrq", "data", "send_ret"} =>
              (Len(measurements) = num_of_cycles /\ Len(pending) = num_of_cycles)

C19_Witness ==
    /\ faults = 0 /\ pc = "rtc" /\ wakes = num_of_cycles + 2
    /\ loaded = 2 /\ Len(measurements) = 1
    /\ delivered[1] = 0
\* C20: whenever a delivery attempt is made while the network is connected,
\* already at wake or connected during this cycle, send_log_file is given a
\* socket pool and never None.
C20_SendGetsPoolWhenConnected ==
    (pc = "wrq" /\ connected) => pool # "None"

====
